---- MODULE Spec2Model ----
(***************************************************************************)
(* Model of the stopwatch of simple_timer (src/src/main.rs): the GUI       *)
(* struct's timing fields, the four arms of GUI::update, and the parts of  *)
(* GUI::view that derive the displayed text and the start/stop button.     *)
(*                                                                         *)
(* Time is kept as std::time does: an Instant and a Duration are a pair    *)
(* (secs, nanos) with nanos < 10^9; the clock is monotonic.                *)
(***************************************************************************)
EXTENDS Integers, Sequences, FiniteSets, TLC

\* ---------------------------------------------------------------- constants
FPS == 30
MILLISEC == 1000
MINUTE == 60
HOUR == 60 * MINUTE

NANOS_PER_SEC == 1000000000
NANOS_PER_MILLI == 1000000

\* ------------------------------------------------------------------- bounds
\* number of times the clock may move forward in one behaviour
MaxAdvances == 3
\* number of messages GUI::update may handle in one behaviour
MaxHandled == 5

\* ------------------------------------------------------------ time arithmetic
Dur(s, n) == [secs |-> s, nanos |-> n]

\* Duration::default()
DurationDefault == Dur(0, 0)

\* Duration += Duration (carry of the nanosecond field into the seconds)
DurationAdd(a, b) ==
    LET n == a.nanos + b.nanos
    IN  IF n >= NANOS_PER_SEC
          THEN Dur(a.secs + b.secs + 1, n - NANOS_PER_SEC)
          ELSE Dur(a.secs + b.secs, n)

\* a <= b on (secs, nanos) pairs
TimeLeq(a, b) == a.secs < b.secs \/ (a.secs = b.secs /\ a.nanos <= b.nanos)

\* Instant - Instant (duration_since; zero when the later instant is earlier)
InstantSub(later, earlier) ==
    IF ~TimeLeq(earlier, later)
      THEN DurationDefault
      ELSE IF later.nanos >= earlier.nanos
             THEN Dur(later.secs - earlier.secs, later.nanos - earlier.nanos)
             ELSE Dur(later.secs - earlier.secs - 1,
                      later.nanos + NANOS_PER_SEC - earlier.nanos)

\* Duration::as_secs and Duration::subsec_millis
as_secs(d) == d.secs
subsec_millis(d) == d.nanos \div NANOS_PER_MILLI

\* --------------------------------------------------------------- the program
Message == {"Start", "Stop", "Reset", "Update"}
TickState == {"Init", "Stopped", "Ticking"}

\* the timing fields of struct GUI
GUI(ts, lu, td) == [tick_state |-> ts, last_update |-> lu, total_duration |-> td]

\* GUI::new, with t the reading of Instant::now()
new(t) == GUI("Init", t, DurationDefault)

\* Start that also clears the accumulated time (a resume that restarts)
UpdateStart_Zeroes(g, t) == GUI("Ticking", t, DurationDefault)

\* Start that puts the checkpoint one frame ahead of the clock reading
UpdateStart_Ahead(g, t) ==
    GUI("Ticking", DurationAdd(t, Dur(0, 33000000)), g.total_duration)

\* Message::Start arm of GUI::update
UpdateStart(g, t) == GUI("Ticking", t, g.total_duration)

\* Stop that only changes the state and drops the time since the checkpoint
UpdateStop_DropsTime(g, t) == GUI("Stopped", g.last_update, g.total_duration)

\* Message::Stop arm of GUI::update
UpdateStop(g, t) ==
    GUI("Stopped", g.last_update,
        DurationAdd(g.total_duration, InstantSub(t, g.last_update)))

\* Reset that forgets to clear the accumulated time
UpdateReset_KeepTotal(g, t) == GUI("Init", t, g.total_duration)

\* Reset that leaves the checkpoint where it was
UpdateReset_KeepCheckpoint(g, t) == GUI("Init", g.last_update, DurationDefault)

\* Message::Reset arm of GUI::update
UpdateReset(g, t) == GUI("Init", t, DurationDefault)

\* Update that accumulates in every state
UpdateUpdate_NoGuard(g, t) ==
    GUI(g.tick_state, t,
        DurationAdd(g.total_duration, InstantSub(t, g.last_update)))

\* Update that adds the time since the checkpoint without moving it
UpdateUpdate_KeepCheckpoint(g, t) ==
    IF g.tick_state = "Ticking"
      THEN GUI(g.tick_state, g.last_update,
               DurationAdd(g.total_duration, InstantSub(t, g.last_update)))
      ELSE g

\* Message::Update arm of GUI::update
UpdateUpdate(g, t) ==
    IF g.tick_state = "Ticking"
      THEN GUI(g.tick_state, t,
               DurationAdd(g.total_duration, InstantSub(t, g.last_update)))
      ELSE g

\* GUI::update
update(g, message, t) ==
    CASE message = "Start"  -> UpdateStart(g, t)
      [] message = "Stop"   -> UpdateStop(g, t)
      [] message = "Reset"  -> UpdateReset(g, t)
      [] message = "Update" -> UpdateUpdate(g, t)

\* ----------------------------------------------------------------- GUI::view
\* format "{}" of an unsigned integer: no padding
Pad2_NoPad(n) == ToString(n)

\* format "{:0>2}" of an unsigned integer
Pad2(n) == IF n < 10 THEN "0" \o ToString(n) ELSE ToString(n)

\* the four numbers handed to format! in GUI::view
HH(d) == as_secs(d) \div HOUR
\* minutes that are not wrapped at the hour
MM_NoWrap(d) == as_secs(d) \div MINUTE
MM(d) == (as_secs(d) % HOUR) \div MINUTE
SS(d) == as_secs(d) % HOUR
CC(d) == subsec_millis(d) \div 10

duration_text(d) ==
    Pad2(HH(d)) \o ":" \o Pad2(MM(d)) \o ":" \o Pad2(SS(d)) \o "." \o Pad2(CC(d))

\* a stopped timer labelled like a fresh one
start_stop_text_Swapped(ts) ==
    CASE ts = "Init"    -> "Start"
      [] ts = "Stopped" -> "Start"
      [] ts = "Ticking" -> "Stop"

start_stop_text(ts) ==
    CASE ts = "Init"    -> "Start"
      [] ts = "Stopped" -> "Restart"
      [] ts = "Ticking" -> "Stop"

start_stop_message(ts) ==
    CASE ts \in {"Init", "Stopped"} -> "Start"
      [] ts = "Ticking"             -> "Stop"

\* what GUI::view puts on the window: the time label, the label of the
\* start/stop button and the message that button sends when pressed
view(g) ==
    [duration_text      |-> duration_text(g.total_duration),
     start_stop_text    |-> start_stop_text(g.tick_state),
     start_stop_message |-> start_stop_message(g.tick_state)]

\* GUI::subscription: the timer recipe the runtime keeps running; it is
\* built from the constants alone, whatever the state of the GUI
subscription(g) == [period_ms |-> MILLISEC \div FPS, message |-> "Update"]

\* --------------------------------------------------- bookkeeping of a run
\* A run is opened by a Start handled in Init or Stopped, at clock reading
\* t0 with total_duration a; it counts the Updates handled since and is
\* closed by the Stop that follows them (ticks stops counting at 2: none,
\* one, many).  Any other message ends the bookkeeping.
NoRun == [state |-> "none", t0 |-> Dur(0, 0), a |-> Dur(0, 0), ticks |-> 0]

RunAfter(r, g, m, t) ==
    CASE m = "Start" ->
           IF g.tick_state \in {"Init", "Stopped"}
             THEN [state |-> "open", t0 |-> t, a |-> g.total_duration, ticks |-> 0]
             ELSE NoRun
      [] m = "Update" ->
           IF r.state = "open"
             THEN [r EXCEPT !.ticks = IF r.ticks < 2 THEN r.ticks + 1 ELSE 2]
             ELSE NoRun
      [] m = "Stop" ->
           IF r.state = "open" THEN [r EXCEPT !.state = "closed"] ELSE NoRun
      [] m = "Reset" -> NoRun

\* the clock reading at which total_duration was last set to zero (by the
\* construction or by a Reset)
ZeroedAfter(z, g, m, t) == IF m = "Reset" THEN t ELSE z

\* ---------------------------------------- the transition table of the spec
\* TimerState and the guarded effects of Start, Stop, Reset and Tick as the
\* specification gives them (its section 4.2), run beside the program.
TimerState(m, c, a) == [mode |-> m, last_checkpoint |-> c, accumulated |-> a]

TableStep(s, input, t) ==
    CASE input = "Start" ->
           IF s.mode \in {"Idle", "Stopped"}
             THEN TimerState("Running", t, s.accumulated)
             ELSE s
      [] input = "Stop" ->
           IF s.mode = "Running"
             THEN TimerState("Stopped", s.last_checkpoint,
                             DurationAdd(s.accumulated,
                                         InstantSub(t, s.last_checkpoint)))
             ELSE s
      [] input = "Reset" -> TimerState("Idle", t, Dur(0, 0))
      [] input = "Update" ->
           IF s.mode = "Running"
             THEN TimerState("Running", t,
                             DurationAdd(s.accumulated,
                                         InstantSub(t, s.last_checkpoint)))
             ELSE s

\* the specification's name of a TickState
ModeOf(ts) ==
    CASE ts = "Init"    -> "Idle"
      [] ts = "Ticking" -> "Running"
      [] ts = "Stopped" -> "Stopped"

\* --------------------------------------------------------------------- state
VARIABLES
    tick_state,      \* GUI.tick_state
    last_update,     \* GUI.last_update
    total_duration,  \* GUI.total_duration
    screen,          \* the widgets GUI::view built last
    now,             \* the reading Instant::now() gives at this moment
    advances,        \* how often the clock has moved (bounded by MaxAdvances)
    handled,         \* how many messages were handled (bounded by MaxHandled)
    msg,             \* the message update handled last ("None" before any)
    pre,             \* the GUI fields as they were before that message
    at,              \* the clock reading when that message was handled
    running,         \* clock time passed while Ticking since the last Reset
    started,         \* whether a Start or Stop has ever been handled
    run,             \* the run opened by the last Start (see RunAfter)
    zeroed,          \* the clock reading when total_duration was last zeroed
    table            \* the TimerState of the specification's table

vars == <<tick_state, last_update, total_duration, screen, now, advances,
          handled, msg, pre, at, running, started, run, zeroed, table>>

gui == GUI(tick_state, last_update, total_duration)

\* the amounts by which the clock moves between two events
ClockSteps == {Dur(0, 7000000), Dur(0, 33000000), Dur(0, 995000000), Dur(59, 0)}

\* the clock reading at construction
Epoch == Dur(100, 999000000)

\* GUI::new followed by the first GUI::view
Init ==
    /\ now = Epoch
    /\ tick_state = new(Epoch).tick_state
    /\ last_update = new(Epoch).last_update
    /\ total_duration = new(Epoch).total_duration
    /\ screen = view(new(Epoch))
    /\ advances = 0
    /\ handled = 0
    /\ msg = "None"
    /\ pre = new(Epoch)
    /\ at = Epoch
    /\ running = DurationDefault
    /\ started = FALSE
    /\ run = NoRun
    /\ zeroed = Epoch
    /\ table = TimerState("Idle", Epoch, DurationDefault)

\* the monotonic clock moves forward
Advance ==
    /\ advances < MaxAdvances
    /\ \E d \in ClockSteps :
         /\ now' = DurationAdd(now, d)
         /\ running' = IF tick_state = "Ticking" THEN DurationAdd(running, d)
                       ELSE running
    /\ advances' = advances + 1
    /\ UNCHANGED <<tick_state, last_update, total_duration, screen, handled,
                   msg, pre, at, started, run, zeroed, table>>

\* the runtime hands message m to GUI::update and redraws with GUI::view
Handle(m) ==
    LET g == update(gui, m, now)
    IN  /\ handled < MaxHandled
        /\ handled' = handled + 1
        /\ tick_state' = g.tick_state
        /\ last_update' = g.last_update
        /\ total_duration' = g.total_duration
        /\ screen' = view(g)
        /\ msg' = m
        /\ pre' = gui
        /\ at' = now
        /\ run' = RunAfter(run, gui, m, now)
        /\ zeroed' = ZeroedAfter(zeroed, gui, m, now)
        /\ UNCHANGED <<now, advances>>

\* the bookkeeping that goes with message m
Account(m) ==
    /\ started' = (started \/ m \in {"Start", "Stop"})
    /\ running' = IF m = "Reset" THEN DurationDefault ELSE running

Start ==
    /\ Handle("Start")
    /\ Account("Start")
    /\ UNCHANGED table

Stop ==
    /\ Handle("Stop")
    /\ Account("Stop")
    /\ UNCHANGED table

Reset ==
    /\ Handle("Reset")
    /\ Account("Reset")
    /\ UNCHANGED table

Update ==
    /\ Handle("Update")
    /\ Account("Update")
    /\ UNCHANGED table

Next == Advance \/ Start \/ Stop \/ Reset \/ Update

Spec == Init /\ [][Next]_vars

TypeOK ==
    /\ tick_state \in TickState
    /\ msg \in Message \cup {"None"}
    /\ advances \in 0..MaxAdvances
    /\ handled \in 0..MaxHandled
    /\ total_duration.nanos \in 0..(NANOS_PER_SEC - 1)
    /\ now.nanos \in 0..(NANOS_PER_SEC - 1)

\* ------------------------------------------------- GUI::view as a function
\* The view is a function of the GUI fields alone; SpecView draws the fields
\* from a grid of values and draws the window once.
Blank == [duration_text |-> "", start_stop_text |-> "", start_stop_message |-> ""]

\* largest number of whole hours among the drawn durations
MaxHours == 2

ViewSecs ==
    UNION { {h * HOUR, h * HOUR + 1, h * HOUR + 9, h * HOUR + 10, h * HOUR + 59,
             h * HOUR + 60, h * HOUR + 61, h * HOUR + 599, h * HOUR + 600,
             h * HOUR + 3599} : h \in 0..MaxHours } \cup {99 * HOUR, 100 * HOUR + 75}

ViewNanos == {0, 1, 9999999, 10000000, 99999999, 100000000, 123456789,
              989999999, 990000000, 999999999}

InitView ==
    /\ tick_state \in TickState
    /\ total_duration \in {Dur(s, n) : s \in ViewSecs, n \in ViewNanos}
    /\ tick_state = "Init" => total_duration = DurationDefault
    /\ last_update = Epoch
    /\ now = Epoch
    /\ screen = Blank
    /\ advances = 0
    /\ handled = 0
    /\ msg = "None"
    /\ pre = GUI(tick_state, last_update, total_duration)
    /\ at = Epoch
    /\ running = total_duration
    /\ started = (tick_state # "Init")
    /\ run = NoRun
    /\ zeroed = Epoch
    /\ table = TimerState(ModeOf(tick_state), last_update, total_duration)

\* the runtime calls GUI::view
View ==
    /\ screen = Blank
    /\ screen' = view(gui)
    /\ UNCHANGED <<tick_state, last_update, total_duration, now, advances,
                   handled, msg, pre, at, running, started, run, zeroed, table>>

NextView == View

SpecView == InitView /\ [][NextView]_vars

\* ------------------------------------------- commands from the buttons only
\* The start/stop button sends the message GUI::view gave it for the state
\* drawn last; the reset button and the timer send theirs at any time.  The
\* specification's table is given every message the program is given, with
\* the same clock reading.
Deliver(m) ==
    /\ Handle(m)
    /\ Account(m)
    /\ table' = TableStep(table, m, now)

PressStartStop ==
    \/ screen.start_stop_message = "Start" /\ Deliver("Start")
    \/ screen.start_stop_message = "Stop" /\ Deliver("Stop")

PressReset == Deliver("Reset")

Tick == Deliver("Update")

NextGUI == Advance \/ PressStartStop \/ PressReset \/ Tick

SpecGUI == Init /\ [][NextGUI]_vars

\* ------------------------------------------------------------------- claims
Zero == DurationDefault

\* C1: after every Reset, whatever the state before it (any mode, any
\* accumulated time, also right after another Reset), total_duration is zero
\* and tick_state is Init.
C1_ResetZeroesAndIdles ==
    msg = "Reset" => total_duration = Zero /\ tick_state = "Init"

C1_Witness_ResetMidRun ==
    /\ msg = "Reset"
    /\ pre.tick_state = "Ticking"
    /\ pre.total_duration # Zero
    /\ at # pre.last_update

\* C2: a Stop handled while tick_state is Init or Stopped changes neither
\* tick_state nor total_duration.
C2_StopOutsideRunIsNoOp ==
    (msg = "Stop" /\ pre.tick_state # "Ticking") =>
        /\ tick_state = pre.tick_state
        /\ total_duration = pre.total_duration

\* C3: an Update handled while tick_state is Init or Stopped leaves
\* tick_state, total_duration and last_update as they were, however far the
\* clock has moved.
C3_TickOutsideRunIsNoOp ==
    (msg = "Update" /\ pre.tick_state # "Ticking") => gui = pre

C3_Witness_TickWhileStopped ==
    /\ msg = "Update"
    /\ pre.tick_state = "Stopped"
    /\ pre.total_duration # Zero
    /\ at # pre.last_update
    /\ gui = pre

\* C4: for every message other than Reset, total_duration after it is at
\* least total_duration before it, and differs from it only if tick_state
\* was Ticking before.
C4_GrowsOnlyWhileRunning ==
    msg \in {"Start", "Stop", "Update"} =>
        /\ TimeLeq(pre.total_duration, total_duration)
        /\ total_duration # pre.total_duration => pre.tick_state = "Ticking"

\* C5: whenever the timer is not Ticking, total_duration equals the clock
\* time that passed while tick_state was Ticking since the last Reset.
C5_TotalIsSumOfRunningIntervals ==
    tick_state # "Ticking" => total_duration = running

\* C6: a Start handled while tick_state is Init or Stopped sets tick_state
\* to Ticking and last_update to the clock reading and keeps total_duration;
\* and no message but Reset ever makes total_duration smaller.
C6_ResumeKeepsTotal ==
    /\ (msg = "Start" /\ pre.tick_state \in {"Init", "Stopped"}) =>
           /\ tick_state = "Ticking"
           /\ last_update = at
           /\ total_duration = pre.total_duration
    /\ (msg # "None" /\ ~TimeLeq(pre.total_duration, total_duration)) =>
           msg = "Reset"

C6_Witness_StartAfterStop ==
    /\ msg = "Start"
    /\ pre.tick_state = "Stopped"
    /\ pre.total_duration # Zero
    /\ at # pre.last_update
    /\ total_duration = pre.total_duration

\* C7: tick_state changes only as Init -Start-> Ticking, Ticking -Stop->
\* Stopped, Stopped -Start-> Ticking and anything -Reset-> Init.
C7_OnlySpecifiedTransitions ==
    (msg # "None" /\ pre.tick_state # tick_state) =>
        \/ msg = "Reset" /\ tick_state = "Init"
        \/ <<pre.tick_state, msg, tick_state>> \in
              { <<"Init", "Start", "Ticking">>,
                <<"Ticking", "Stop", "Stopped">>,
                <<"Stopped", "Start", "Ticking">> }

\* C8: in every state the button on the window reads Start, Restart or Stop
\* as tick_state is Init, Stopped or Ticking, and sends Start unless
\* tick_state is Ticking, when it sends Stop.
C8_ButtonFollowsMode ==
    /\ tick_state = "Init"    => screen.start_stop_text = "Start"
    /\ tick_state = "Stopped" => screen.start_stop_text = "Restart"
    /\ tick_state = "Ticking" => screen.start_stop_text = "Stop"
    /\ tick_state \in {"Init", "Stopped"} => screen.start_stop_message = "Start"
    /\ tick_state = "Ticking" => screen.start_stop_message = "Stop"

C8_Witness_RestartShown ==
    /\ tick_state = "Stopped"
    /\ msg = "Stop"
    /\ pre.tick_state = "Ticking"
    /\ total_duration # Zero
    /\ screen.start_stop_text = "Restart"
    /\ screen.start_stop_message = "Start"

\* C9: until a Start (or Stop) is handled, the timer is Init with zero
\* total_duration, the window shows 00:00:00.00 and the button reads Start.
C9_NeverStartedShowsZero ==
    ~started =>
        /\ tick_state = "Init"
        /\ total_duration = Zero
        /\ screen.duration_text = "00:00:00.00"
        /\ screen.start_stop_text = "Start"

C9_Witness_TicksAndResetsOnly ==
    /\ ~started
    /\ msg = "Update"
    /\ handled >= 3
    /\ at # pre.last_update
    /\ screen.duration_text = "00:00:00.00"

\* C10: the text drawn for total_duration is HH:MM:SS.CC with
\* HH = s div 3600, MM = (s mod 3600) div 60, SS = s mod 3600 and
\* CC = ms div 10, each with a leading zero when below ten, where s is the
\* whole seconds and ms the milliseconds of the sub-second part; MM is in
\* 0..59 and CC in 0..99.
TwoDigits(n) == IF n <= 9 THEN "0" \o ToString(n) ELSE ToString(n)

C10_TextFieldByField ==
    screen # Blank =>
        LET s  == total_duration.secs
            ms == total_duration.nanos \div 1000000
        IN  /\ screen.duration_text =
                  TwoDigits(s \div 3600) \o ":" \o
                  TwoDigits((s % 3600) \div 60) \o ":" \o
                  TwoDigits(s % 3600) \o "." \o
                  TwoDigits(ms \div 10)
            /\ MM(total_duration) \in 0..59
            /\ CC(total_duration) \in 0..99

C10_Witness_PastTheHour ==
    /\ screen # Blank
    /\ total_duration = Dur(100 * 3600 + 75, 989999999)
    /\ screen.duration_text = "100:01:75.98"

\* C11: the text is a faithful HH:MM:SS.CC reading: the seconds field is in
\* 0..59 and HH*3600 + MM*60 + SS gives back the whole seconds of
\* total_duration.
C11_TextReadsBackSeconds ==
    screen # Blank =>
        /\ SS(total_duration) \in 0..59
        /\ HH(total_duration) * 3600 + MM(total_duration) * 60
             + SS(total_duration) = total_duration.secs

\* C12: every message that adds now - last_update to total_duration (Stop,
\* and Update while Ticking) also moves last_update to that clock reading.
C12_CheckpointMovesWithEveryAddition ==
    (msg = "Stop" \/ (msg = "Update" /\ pre.tick_state = "Ticking")) =>
        last_update = at

\* C13: a Start handled while tick_state is Ticking leaves tick_state,
\* last_update and total_duration as they were.
C13_StartWhileRunningIsNoOp ==
    (msg = "Start" /\ pre.tick_state = "Ticking") => gui = pre

\* C16: in every state, handling Update and then Start (or Stop) at one
\* clock reading ends in the same tick_state and total_duration as handling
\* them in the other order.
C16_TickCommutesWithCommand ==
    \A m \in {"Start", "Stop"} :
        LET tick_first == update(update(gui, "Update", now), m, now)
            tick_last  == update(update(gui, m, now), "Update", now)
        IN  /\ tick_first.tick_state = tick_last.tick_state
            /\ tick_first.total_duration = tick_last.total_duration

\* C19: last_update is never later than the clock reading, so the
\* subtraction now - last_update done by Stop and Update is exact (adding
\* it back to last_update gives now) and total_duration is never negative.
C19_CheckpointNeverAfterClock ==
    /\ TimeLeq(last_update, now)
    /\ DurationAdd(last_update, InstantSub(now, last_update)) = now
    /\ TimeLeq(Zero, total_duration)
    /\ total_duration.nanos \in 0..(NANOS_PER_SEC - 1)

C19_Witness_SubtractionWithBorrow ==
    /\ msg = "Stop"
    /\ pre.tick_state = "Ticking"
    /\ at.nanos < pre.last_update.nanos
    /\ advances >= 2
    /\ total_duration # pre.total_duration

\* C14: a run opened by a Start at t0 with total_duration a and closed by a
\* Stop at t1, with only Updates (none, one or many, at any instants) in
\* between, ends with total_duration = a + (t1 - t0).
C14_RunAddsItsLength ==
    run.state = "closed" =>
        total_duration = DurationAdd(run.a, InstantSub(at, run.t0))

C14_Witness_TickInsideSecondRun ==
    /\ run.state = "closed"
    /\ run.ticks >= 1
    /\ started /\ pre.tick_state = "Ticking"
    /\ run.a # Zero
    /\ pre.last_update # run.t0
    /\ at # pre.last_update

\* C15: a Reset handled at clock reading r leaves tick_state Init,
\* total_duration zero and last_update r, whatever was accumulated or not
\* yet flushed; from then on last_update is never before r, so nothing
\* added later reaches back before r; and a run opened with zero
\* total_duration shows, after each Update at t1, exactly t1 - t0.
C15_ResetIsHardZero ==
    /\ msg = "Reset" => gui = GUI("Init", at, Zero) /\ zeroed = at
    /\ TimeLeq(zeroed, last_update)
    /\ (run.state = "open" /\ run.a = Zero /\ msg = "Update") =>
           total_duration = InstantSub(at, run.t0)

C15_Witness_ResetDropsUnflushed ==
    /\ msg = "Reset"
    /\ pre.tick_state = "Ticking"
    /\ pre.total_duration # Zero
    /\ TimeLeq(pre.last_update, at) /\ pre.last_update # at
    /\ zeroed = at
    /\ gui = GUI("Init", at, Zero)

\* C17: the timer recipe is the same in every state (period 33 ms, message
\* Update), and right after each Update handled while Ticking
\* total_duration equals all the clock time that passed while Ticking since
\* the last Reset.
C17_TickShowsFullRunningTime ==
    /\ subscription(gui) = [period_ms |-> 33, message |-> "Update"]
    /\ (msg = "Update" /\ pre.tick_state = "Ticking" /\ at = now) =>
           total_duration = running

\* C18: with Start and Stop coming only from the button as drawn, the
\* program and the specification's table, given the same messages at the
\* same clock readings, agree on the mode and on the accumulated time in
\* every state.
C18_ProgramFollowsTable ==
    /\ table.mode = ModeOf(tick_state)
    /\ table.accumulated = total_duration

C18_Witness_SecondRunStopped ==
    /\ msg = "Stop"
    /\ handled >= 4
    /\ pre.total_duration # Zero
    /\ total_duration # pre.total_duration
    /\ table.mode = "Stopped"
    /\ table.accumulated = total_duration
====
